---- MODULE Spec2Model ----
(***************************************************************************)
(* Hybrid vulnerability detector: regex rule matcher (static_analysis.py), *)
(* lazily loaded classifier singleton (ml_model.py), severity resolver and *)
(* per-file orchestrator (hybrid_detector.py), and the part of the GitHub  *)
(* webhook handler that consumes their results (app.py).                   *)
(*                                                                         *)
(* Text is modelled at lexeme level: a code string is a sequence of        *)
(* lexemes, line breaks included; probabilities are integers in percent.   *)
(***************************************************************************)
EXTENDS Integers, Sequences, FiniteSets, TLC

VARIABLES
    _MODEL,        \* ml_model._MODEL: the cached classifier instance, or None
    _MODEL_LOCK,   \* ml_model._MODEL_LOCK: 0 when free, else the holding thread
    artifact,      \* the file at ML_MODEL_PATH
    loads,         \* history: number of completed joblib.load calls
    th,            \* per thread: position and locals of its current call
    call,          \* a direct call of a pure function: its arguments
    ret,           \* ... and its return value
    wh             \* one github_webhook request: position and locals

vars == <<_MODEL, _MODEL_LOCK, artifact, loads, th, call, ret, wh>>

----------------------------------------------------------------------------
(* Bounds *)

\* longest input, in lines, given to analyze_code_static directly
MaxLines == 5
\* number of concurrent request threads
NumThreads == 2
\* most changed files in one pull request
MaxFiles == 2

----------------------------------------------------------------------------
(* Lexemes *)

LineBreaks == {"\n", "\r\n"}
Whitespace == {" "}
Quotes == {"'", "\""}
SqlVerbs == {"SELECT", "select"}
SqlSources == {"FROM"}
CredNames == {"password", "token"}
\* "K16" stands for a run of exactly 16 characters of [0-9A-Z]
LineTok == Whitespace \cup Quotes \cup SqlVerbs \cup SqlSources \cup CredNames
             \cup {"x", "=", "+", "%s", "{", "}", "(", ")", "eval", "exec",
                   "AKIA", "akia", "K16"}
\* lexemes whose first / last character is a word character (\w)
StartsWord == SqlVerbs \cup SqlSources \cup CredNames
                \cup {"x", "eval", "exec", "AKIA", "akia", "K16"}
EndsWord == StartsWord \cup {"%s"}

----------------------------------------------------------------------------
(* static_analysis.py: the compiled patterns.  A pattern is its source     *)
(* text and its alternatives; an alternative is a sequence of items, an    *)
(* item a lexeme class with a repetition ("1", "+", "*") or "b" for \b.    *)

One(S) == [cls |-> S, rep |-> "1"]
Plus(S) == [cls |-> S, rep |-> "+"]
Star(S) == [cls |-> S, rep |-> "*"]
WordB == [cls |-> {}, rep |-> "b"]

SQL_INJECTION_PATTERNS ==
    << [pattern |-> "(SELECT|UPDATE|DELETE|INSERT)\\s+.+\\s+(FROM|INTO)\\s+.+\\+.+",
        alts |-> { << One(SqlVerbs), Plus(Whitespace), Plus(LineTok),
                      Plus(Whitespace), One(SqlSources), Plus(Whitespace),
                      Plus(LineTok), One({"+"}), Plus(LineTok) >> }],
       [pattern |-> "(SELECT|UPDATE|DELETE|INSERT).*(%s|\\{.*\\})",
        alts |-> { << One(SqlVerbs), Star(LineTok), One({"%s"}) >>,
                   << One(SqlVerbs), Star(LineTok), One({"{"}), Star(LineTok),
                      One({"}"}) >> }] >>

HARDCODED_CREDENTIAL_PATTERNS ==
    << [pattern |-> "(password|passwd|pwd|secret|token|api_key)\\s*=\\s*['\\\"].+['\\\"]",
        alts |-> { << One(CredNames), Star(Whitespace), One({"="}),
                      Star(Whitespace), One(Quotes), Plus(LineTok),
                      One(Quotes) >> }],
       [pattern |-> "AKIA[0-9A-Z]{16}",
        alts |-> { << One({"AKIA"}), One({"K16"}) >> }] >>

UNSAFE_EVAL_PATTERNS ==
    << [pattern |-> "\\beval\\(",
        alts |-> { << WordB, One({"eval"}), One({"("}) >> }],
       [pattern |-> "\\bexec\\(",
        alts |-> { << WordB, One({"exec"}), One({"("}) >> }] >>

\* \b at position i of line: exactly one side is a word character
WordBoundary(line, i) ==
    LET before == i > 1 /\ line[i - 1] \in EndsWord
        after == i <= Len(line) /\ line[i] \in StartsWord
    IN  before # after

\* items[k..] match a prefix of line[i..]
RECURSIVE MatchAt(_, _, _, _)
MatchAt(items, k, line, i) ==
    IF k > Len(items) THEN TRUE
    ELSE LET it == items[k] IN
         CASE it.rep = "b" ->
                WordBoundary(line, i) /\ MatchAt(items, k + 1, line, i)
           [] it.rep = "1" ->
                /\ i <= Len(line)
                /\ line[i] \in it.cls
                /\ MatchAt(items, k + 1, line, i + 1)
           [] OTHER ->
                \E j \in (IF it.rep = "+" THEN i + 1 ELSE i)..(Len(line) + 1) :
                    /\ \A m \in i..(j - 1) : line[m] \in it.cls
                    /\ MatchAt(items, k + 1, line, j)

\* pattern.search(line)
Search(pattern, line) ==
    \E alt \in pattern.alts : \E i \in 1..(Len(line) + 1) :
        MatchAt(alt, 1, line, i)

\* str.strip()
RECURSIVE Strip(_)
Strip(line) ==
    IF line = <<>> THEN line
    ELSE IF Head(line) \in Whitespace \cup LineBreaks THEN Strip(Tail(line))
    ELSE IF line[Len(line)] \in Whitespace \cup LineBreaks
         THEN Strip(SubSeq(line, 1, Len(line) - 1))
    ELSE line

\* str.splitlines()
RECURSIVE splitlines(_)
splitlines(code) ==
    IF code = <<>> THEN <<>>
    ELSE LET brk == {k \in 1..Len(code) : code[k] \in LineBreaks} IN
         IF brk = {} THEN <<code>>
         ELSE LET k == CHOOSE b \in brk : \A c \in brk : b <= c IN
              <<SubSeq(code, 1, k - 1)>>
                  \o splitlines(SubSeq(code, k + 1, Len(code)))

\* the inner loop of _scan_patterns: the findings of line idx, from pattern p on
RECURSIVE ScanLine(_, _, _, _, _)
ScanLine(line, idx, patterns, p, rule_name) ==
    IF p > Len(patterns) THEN <<>>
    ELSE (IF Search(patterns[p], line)
          THEN << [rule |-> rule_name, line |-> idx, snippet |-> Strip(line),
                   pattern |-> patterns[p].pattern] >>
          ELSE <<>>)
         \o ScanLine(line, idx, patterns, p + 1, rule_name)

\* the outer loop of _scan_patterns, from line idx on (enumerate(lines, start=1))
RECURSIVE ScanFrom(_, _, _, _)
ScanFrom(lines, idx, patterns, rule_name) ==
    IF idx > Len(lines) THEN <<>>
    ELSE ScanLine(lines[idx], idx, patterns, 1, rule_name)
         \o ScanFrom(lines, idx + 1, patterns, rule_name)

\* as _scan_patterns, numbering the lines from 0 (enumerate without start=1)
_scan_patterns_from_zero(lines, patterns, rule_name) ==
    LET f == ScanFrom(lines, 1, patterns, rule_name) IN
    [k \in 1..Len(f) |-> [f[k] EXCEPT !.line = @ - 1]]

_scan_patterns(lines, patterns, rule_name) ==
    ScanFrom(lines, 1, patterns, rule_name)

analyze_code_static(code) ==
    LET lines == splitlines(code) IN
    _scan_patterns(lines, SQL_INJECTION_PATTERNS, "SQL_INJECTION")
        \o _scan_patterns(lines, HARDCODED_CREDENTIAL_PATTERNS, "HARDCODED_CREDENTIAL")
        \o _scan_patterns(lines, UNSAFE_EVAL_PATTERNS, "UNSAFE_EVAL")

----------------------------------------------------------------------------
(* Inputs: source lines the checks build code from *)

PlainLine == <<"x", "eval", "(", "akia", "K16", ")">>
CredLine == <<"password", " ", "=", " ", "\"", "x", "\"">>
ExecSqlAwsLine ==
    <<"exec", "(", "SELECT", " ", "x", " ", "FROM", " ", "x", "+",
      "token", "=", "'", "AKIA", "K16", "'", ")">>
EvalSqlLine == <<" ", "eval", "(", "\"", "select", " ", "%s", "\"", ")", " ">>
BlankLine == <<>>
SampleLines ==
    {PlainLine, CredLine, ExecSqlAwsLine, EvalSqlLine, BlankLine}

\* the lines joined by line break brk, with a final line break when trailing
RECURSIVE JoinLines(_, _, _)
JoinLines(src, brk, trailing) ==
    IF src = <<>> THEN <<>>
    ELSE IF Len(src) = 1 THEN src[1] \o (IF trailing THEN <<brk>> ELSE <<>>)
    ELSE src[1] \o <<brk>> \o JoinLines(Tail(src), brk, trailing)

SeqsUpTo(S, n) == UNION {[1..k -> S] : k \in 0..n}

----------------------------------------------------------------------------
(* The classifier artifact.  The fitted pipeline (train_model.py) is a     *)
(* TF-IDF vectoriser and a logistic regression: a bias and a coefficient   *)
(* over the count of the lexemes it has learnt as risky, clamped to        *)
(* 0..100 percent.                                                         *)

Classifiers ==
    { [bias |-> 20, coef |-> 30], [bias |-> 60, coef |-> 30],
      [bias |-> 10, coef |-> 10] }
RiskyTok == {"password", "token", "AKIA", "select", "SELECT"}

\* the file at ML_MODEL_PATH: absent, present but not a loadable pipeline, or
\* a dumped pipeline
MissingArtifact == [state |-> "missing", bias |-> 0, coef |-> 0]
UnreadableArtifact == [state |-> "unreadable", bias |-> 0, coef |-> 0]
Dumped(clf) == [state |-> "present", bias |-> clf.bias, coef |-> clf.coef]
Artifacts ==
    {MissingArtifact, UnreadableArtifact} \cup {Dumped(c) : c \in Classifiers}

\* _MODEL = None
None == [id |-> 0, bias |-> 0, coef |-> 0]

\* model.predict_proba([code])[0][1], in percent
predict_proba(model, code) ==
    LET n == Cardinality({k \in 1..Len(code) : code[k] \in RiskyTok})
        z == model.bias + model.coef * n
    IN  IF z < 0 THEN 0 ELSE IF z > 100 THEN 100 ELSE z

\* os.path.exists(model_path)
path_exists(art) == art.state # "missing"

\* joblib.load(model_path) succeeds; the instance it builds is the n-th one
joblib_loadable(art) == art.state = "present"
joblib_load(art, n) == [id |-> n, bias |-> art.bias, coef |-> art.coef]

FileNotFoundError == "FileNotFoundError"
UnpicklingError == "UnpicklingError"
NoError == "None"

----------------------------------------------------------------------------
(* ml_model.py, hybrid_detector.py: the pure parts *)

\* default of predict_vulnerability's threshold and of compute_severity's
\* ml_threshold (0.5), in percent
threshold_default == 50
ml_threshold_default == 50

\* dict.get(k, default)
Get(d, k, default) == IF k \in DOMAIN d THEN d[k] ELSE default

\* as score, comparing against the default whatever threshold is given
score_ignoring_threshold(model, code, threshold) ==
    LET proba == predict_proba(model, code) IN
    [label |-> IF proba >= threshold_default THEN "vulnerable" ELSE "safe",
     probability |-> proba]

\* as score, with > for >=
score_strict(model, code, threshold) ==
    LET proba == predict_proba(model, code) IN
    [label |-> IF proba > threshold THEN "vulnerable" ELSE "safe",
     probability |-> proba]

\* predict_vulnerability, after load_model has returned model
score(model, code, threshold) ==
    LET proba == predict_proba(model, code) IN
    [label |-> IF proba >= threshold THEN "vulnerable" ELSE "safe",
     probability |-> proba]

\* as compute_severity, with the second test requiring both flags
compute_severity_both(static_findings, ml_result, ml_threshold) ==
    LET has_static == Len(static_findings) > 0
        ml_prob == Get(ml_result, "probability", 0)
        ml_flag == \/ ml_prob >= ml_threshold
                   \/ Get(ml_result, "label", "None") = "vulnerable"
    IN  IF has_static /\ ml_flag THEN "HIGHty" ELSE "SAFEtt"

compute_severity(static_findings, ml_result, ml_threshold) ==
    LET has_static == Len(static_findings) > 0
        ml_prob == Get(ml_result, "probability", 0)
        ml_flag == \/ ml_prob >= ml_threshold
                   \/ Get(ml_result, "label", "None") = "vulnerable"
    IN  IF has_static /\ ml_flag THEN "HIGHty"
        ELSE IF has_static \/ ml_flag THEN "MEDIUM"
        ELSE "SAFEtt"

----------------------------------------------------------------------------
(* Threads: each runs one call of analyze_file or predict_vulnerability *)

Threads == 1..NumThreads

CleanCode == JoinLines(<<PlainLine>>, "\n", TRUE)
VulnCode == JoinLines(<<PlainLine, CredLine>>, "\n", TRUE)
CallCodes == {CleanCode, VulnCode}
CallThresholds == {50, 70}

NoMl == [label |-> "None", probability |-> 0 - 1]

IdleThread ==
    [pc |-> "idle", op |-> "None", file_path |-> "None", code |-> <<>>,
     threshold |-> 0, static_findings |-> <<>>, model |-> None,
     raised |-> NoError, exc |-> NoError, ml_result |-> NoMl,
     severity |-> "None"]

\* the dict analyze_file returns
Result(s) ==
    [file_path |-> s.file_path, static_findings |-> s.static_findings,
     ml_result |-> s.ml_result, severity |-> s.severity]

\* analyze_file(file_path, code) is entered: line 40 runs the static scan and
\* line 41 calls predict_vulnerability(code) with the default threshold
CallAnalyzeFile(t, file_path, code) ==
    /\ th[t].pc = "idle"
    /\ th' = [th EXCEPT ![t] =
                [IdleThread EXCEPT !.pc = "acquire", !.op = "analyze_file",
                    !.file_path = file_path, !.code = code,
                    !.threshold = threshold_default,
                    !.static_findings = analyze_code_static(code)]]
    /\ UNCHANGED <<_MODEL, _MODEL_LOCK, artifact, loads, call, ret, wh>>

\* predict_vulnerability(code, threshold) is called directly
CallPredict(t, code, threshold) ==
    /\ th[t].pc = "idle"
    /\ th' = [th EXCEPT ![t] =
                [IdleThread EXCEPT !.pc = "acquire",
                    !.op = "predict_vulnerability", !.code = code,
                    !.threshold = threshold]]
    /\ UNCHANGED <<_MODEL, _MODEL_LOCK, artifact, loads, call, ret, wh>>

\* as LockFree, with load_model not taking the lock
LockIgnored == TRUE

\* _MODEL_LOCK can be taken
LockFree == _MODEL_LOCK = 0

\* load_model: with _MODEL_LOCK (enter)
Acquire(t) ==
    /\ th[t].pc = "acquire"
    /\ LockFree
    /\ _MODEL_LOCK' = t
    /\ th' = [th EXCEPT ![t].pc = "check"]
    /\ UNCHANGED <<_MODEL, artifact, loads, call, ret, wh>>

\* as ModelIsNone, with load_model loading on every call
AlwaysReload == TRUE

\* load_model: if _MODEL is None
ModelIsNone == _MODEL = None

CheckModel(t) ==
    /\ th[t].pc = "check"
    /\ th' = [th EXCEPT ![t].pc = IF ModelIsNone THEN "exists" ELSE "release"]
    /\ UNCHANGED <<_MODEL, _MODEL_LOCK, artifact, loads, call, ret, wh>>

\* as Unwind, with analyze_file catching e and reporting the file as safe
UnwindSwallowed(s, e) == [s EXCEPT !.pc = "done", !.severity = "SAFE"]

\* an exception e leaves load_model, then predict_vulnerability and, for
\* analyze_file, analyze_file: none of them catches it
Unwind(s, e) == [s EXCEPT !.pc = "raised", !.exc = e]

\* as Raise, with the lock taken by acquire() and no release on the error path
RaiseHoldingLock(t, e) ==
    /\ th' = [th EXCEPT ![t] = Unwind([th[t] EXCEPT !.raised = e], e)]
    /\ UNCHANGED <<_MODEL, _MODEL_LOCK, artifact, loads, call, ret, wh>>

\* the thread raises e inside the with block: the lock is released on the way out
Raise(t, e) ==
    /\ _MODEL_LOCK' = 0
    /\ th' = [th EXCEPT ![t] = Unwind([th[t] EXCEPT !.raised = e], e)]
    /\ UNCHANGED <<_MODEL, artifact, loads, call, ret, wh>>

\* load_model: if not os.path.exists(model_path): raise FileNotFoundError
CheckExists(t) ==
    /\ th[t].pc = "exists"
    /\ IF path_exists(artifact)
       THEN /\ th' = [th EXCEPT ![t].pc = "load"]
            /\ UNCHANGED <<_MODEL, _MODEL_LOCK, artifact, loads, call, ret, wh>>
       ELSE Raise(t, FileNotFoundError)

\* load_model: _MODEL = joblib.load(model_path)
Load(t) ==
    /\ th[t].pc = "load"
    /\ IF joblib_loadable(artifact)
       THEN /\ _MODEL' = joblib_load(artifact, loads + 1)
            /\ loads' = loads + 1
            /\ th' = [th EXCEPT ![t].pc = "release"]
            /\ UNCHANGED <<_MODEL_LOCK, artifact, call, ret, wh>>
       ELSE Raise(t, UnpicklingError)

\* load_model: the with block is left
Release(t) ==
    /\ th[t].pc = "release"
    /\ _MODEL_LOCK' = 0
    /\ th' = [th EXCEPT ![t].pc = "return"]
    /\ UNCHANGED <<_MODEL, artifact, loads, call, ret, wh>>

\* load_model: return _MODEL
Return(t) ==
    /\ th[t].pc = "return"
    /\ th' = [th EXCEPT ![t].pc = "score", ![t].model = _MODEL]
    /\ UNCHANGED <<_MODEL, _MODEL_LOCK, artifact, loads, call, ret, wh>>

\* predict_vulnerability lines 45-47 and, for analyze_file, lines 43-50
Score(t) ==
    /\ th[t].pc = "score"
    /\ LET s == th[t]
           ml == score(s.model, s.code, s.threshold)
       IN  th' = [th EXCEPT ![t] =
                    [s EXCEPT !.pc = "done", !.ml_result = ml,
                        !.severity =
                            IF s.op = "analyze_file"
                            THEN compute_severity(s.static_findings, ml,
                                                  ml_threshold_default)
                            ELSE "None"]]
    /\ UNCHANGED <<_MODEL, _MODEL_LOCK, artifact, loads, call, ret, wh>>

\* a step of the call a thread is in
Step(t) ==
    \/ Acquire(t)
    \/ CheckModel(t)
    \/ CheckExists(t)
    \/ Load(t)
    \/ Release(t)
    \/ Return(t)
    \/ Score(t)

\* train_model.main: joblib.dump(model, MODEL_PATH) writes a fitted pipeline
TrainModel ==
    /\ \E c \in Classifiers : artifact' = Dumped(c)
    /\ artifact' # artifact
    /\ UNCHANGED <<_MODEL, _MODEL_LOCK, loads, th, call, ret, wh>>

NoCall == [fn |-> "None"]
NoRequest == [pc |-> "None"]

Init ==
    /\ _MODEL = None
    /\ _MODEL_LOCK = 0
    /\ artifact \in Artifacts
    /\ loads = 0
    /\ th = [t \in Threads |-> IdleThread]
    /\ call = NoCall
    /\ ret = "None"
    /\ wh = NoRequest

Next ==
    \/ \E t \in Threads, code \in CallCodes : CallAnalyzeFile(t, "a.py", code)
    \/ \E t \in Threads, code \in CallCodes, thr \in CallThresholds :
            CallPredict(t, code, thr)
    \/ \E t \in Threads : Step(t)
    \/ TrainModel

Spec == Init /\ [][Next]_vars

----------------------------------------------------------------------------
(* Direct calls of the pure functions *)

\* the program state while a pure function is called on its own
Quiescent ==
    /\ _MODEL = None
    /\ _MODEL_LOCK = 0
    /\ artifact = MissingArtifact
    /\ loads = 0
    /\ th = [t \in Threads |-> IdleThread]
    /\ wh = NoRequest

\* how the lines of an input are terminated
Layouts == { [brk |-> "\n", trailing |-> FALSE], [brk |-> "\r\n", trailing |-> TRUE] }

InitStatic ==
    /\ Quiescent
    /\ \E src \in SeqsUpTo(SampleLines, MaxLines), lay \in Layouts :
          call = [fn |-> "analyze_code_static", src |-> src, layout |-> lay,
                  code |-> JoinLines(src, lay.brk, lay.trailing),
                  done |-> FALSE]
    /\ ret = <<>>

CallStatic ==
    /\ call.fn = "analyze_code_static"
    /\ ~call.done
    /\ ret' = analyze_code_static(call.code)
    /\ call' = [call EXCEPT !.done = TRUE]
    /\ UNCHANGED <<_MODEL, _MODEL_LOCK, artifact, loads, th, wh>>

NextStatic == CallStatic

SpecStatic == InitStatic /\ [][NextStatic]_vars

\* hand-built ml_result dicts, with and without each key
MlProbabilities == {0, 49, 50, 51, 100}
MlLabels == {"safe", "vulnerable"}
MlDicts ==
    {[probability |-> p, label |-> l] : p \in MlProbabilities, l \in MlLabels}
        \cup {[probability |-> p] : p \in MlProbabilities}
        \cup {[label |-> l] : l \in MlLabels}
MlThresholds == {30, 50, 70}

InitSeverity ==
    /\ Quiescent
    /\ \E line \in SampleLines, ml \in MlDicts, thr \in MlThresholds :
          call = [fn |-> "compute_severity",
                  static_findings |-> analyze_code_static(line),
                  ml_result |-> ml, ml_threshold |-> thr, done |-> FALSE]
    /\ ret = "None"

CallSeverity ==
    /\ call.fn = "compute_severity"
    /\ ~call.done
    /\ ret' = compute_severity(call.static_findings, call.ml_result,
                               call.ml_threshold)
    /\ call' = [call EXCEPT !.done = TRUE]
    /\ UNCHANGED <<_MODEL, _MODEL_LOCK, artifact, loads, th, wh>>

NextSeverity == CallSeverity

SpecSeverity == InitSeverity /\ [][NextSeverity]_vars

----------------------------------------------------------------------------
(* app.py: one github_webhook request, served by thread 1 *)

\* a well-formed pull_request event, and the ways a request can fall short
ValidRequest ==
    [signature_ok |-> TRUE, event |-> "pull_request", json |-> TRUE,
     action |-> "opened", full_name |-> "owner/repo", number |-> 1]
Requests ==
    { ValidRequest,
      [ValidRequest EXCEPT !.signature_ok = FALSE],
      [ValidRequest EXCEPT !.event = "push"],
      [ValidRequest EXCEPT !.json = FALSE],
      [ValidRequest EXCEPT !.action = "closed"],
      [ValidRequest EXCEPT !.action = "synchronize"],
      [ValidRequest EXCEPT !.full_name = ""] }

FileNames == <<"a.py", "b.py", "c.py", "d.py">>

\* the lists fetch_changed_python_files can return
ChangedFiles ==
    UNION { { [i \in 1..n |-> [filename |-> FileNames[i], content |-> c[i]]] :
                c \in [1..n -> CallCodes] } : n \in 0..MaxFiles }

\* the handler ends with an HTTP status
Respond(status) == [wh EXCEPT !.pc = "responded", !.status = status]

\* lines 154-183: configuration, signature, event type, payload, action, fields
WhReceive ==
    /\ wh.pc = "received"
    /\ wh' = IF ~wh.github_token THEN Respond(500)
             ELSE IF ~wh.req.signature_ok THEN Respond(401)
             ELSE IF wh.req.event # "pull_request" THEN Respond(200)
             ELSE IF ~wh.req.json THEN Respond(400)
             ELSE IF wh.req.action \notin {"opened", "synchronize", "reopened"}
                  THEN Respond(200)
             ELSE IF wh.req.full_name = "" THEN Respond(400)
             ELSE [wh EXCEPT !.pc = "fetch"]
    /\ UNCHANGED <<_MODEL, _MODEL_LOCK, artifact, loads, th, call, ret>>

\* lines 193-199: the fetch raises and the handler aborts with 500
WhFetchFails ==
    /\ wh.pc = "fetch"
    /\ wh' = Respond(500)
    /\ UNCHANGED <<_MODEL, _MODEL_LOCK, artifact, loads, th, call, ret>>

\* lines 193-209: the fetch returns; with no changed file a short comment is
\* posted (a failure to post it is not caught) and the handler returns
WhFetch ==
    /\ wh.pc = "fetch"
    /\ \E files \in ChangedFiles :
          IF files = <<>>
          THEN \E posted \in BOOLEAN :
                  wh' = IF posted
                        THEN [Respond(200) EXCEPT !.comments = Append(@, "none")]
                        ELSE Respond(500)
          ELSE wh' = [wh EXCEPT !.pc = "analyze", !.changed_files = files]
    /\ UNCHANGED <<_MODEL, _MODEL_LOCK, artifact, loads, th, call, ret>>

\* line 219: analyze_file(filename, content) is called for the next file
WhAnalyze ==
    /\ wh.pc = "analyze"
    /\ Len(wh.results) < Len(wh.changed_files)
    /\ LET f == wh.changed_files[Len(wh.results) + 1] IN
       CallAnalyzeFile(1, f.filename, f.content)

\* lines 219-223: analyze_file has returned
WhCollect ==
    /\ wh.pc = "analyze"
    /\ th[1].pc = "done"
    /\ LET result == Result(th[1])
           results == Append(wh.results, result)
       IN  wh' = [wh EXCEPT
                    !.results = results,
                    !.high_severity_results =
                        IF result.severity = "HIGH" THEN Append(@, result) ELSE @,
                    !.pc = IF Len(results) = Len(wh.changed_files)
                           THEN "comment" ELSE "analyze"]
    /\ th' = [th EXCEPT ![1] = IdleThread]
    /\ UNCHANGED <<_MODEL, _MODEL_LOCK, artifact, loads, call, ret>>

\* line 219: analyze_file has raised; nothing in the handler catches it
WhAnalysisRaises ==
    /\ wh.pc = "analyze"
    /\ th[1].pc = "raised"
    /\ wh' = Respond(500)
    /\ UNCHANGED <<_MODEL, _MODEL_LOCK, artifact, loads, th, call, ret>>

\* lines 226-235: the report is posted; a failure is logged and passed over
WhComment ==
    /\ wh.pc = "comment"
    /\ \E posted \in BOOLEAN :
          wh' = [wh EXCEPT !.pc = "slack",
                           !.comments = IF posted THEN Append(@, "report") ELSE @]
    /\ UNCHANGED <<_MODEL, _MODEL_LOCK, artifact, loads, th, call, ret>>

\* notifier.send_slack_notification: nothing without a webhook URL; a failed
\* post is caught
send_slack_notification(webhook_url, high_findings, delivered) ==
    IF webhook_url /\ delivered
    THEN <<[n |-> Len(high_findings)]>>
    ELSE <<>>

\* lines 238-241: Slack is notified when a result is of HIGH severity
WhSlack ==
    /\ wh.pc = "slack"
    /\ IF wh.high_severity_results # <<>>
       THEN \E delivered \in BOOLEAN :
               wh' = [wh EXCEPT
                        !.pc = "log",
                        !.slack_calls = Append(@, wh.high_severity_results),
                        !.slack_posts =
                            @ \o send_slack_notification(wh.slack_webhook_url,
                                    wh.high_severity_results, delivered)]
       ELSE wh' = [wh EXCEPT !.pc = "log"]
    /\ UNCHANGED <<_MODEL, _MODEL_LOCK, artifact, loads, th, call, ret>>

\* lines 244-259: the results are logged and the handler returns OK
WhLog ==
    /\ wh.pc = "log"
    /\ wh' = [Respond(200) EXCEPT !.logged = wh.results]
    /\ UNCHANGED <<_MODEL, _MODEL_LOCK, artifact, loads, th, call, ret>>

InitWebhook ==
    /\ _MODEL = None
    /\ _MODEL_LOCK = 0
    /\ artifact \in Artifacts
    /\ loads = 0
    /\ th = [t \in Threads |-> IdleThread]
    /\ call = NoCall
    /\ ret = "None"
    /\ \E token \in BOOLEAN, url \in BOOLEAN, req \in Requests :
          wh = [pc |-> "received", github_token |-> token,
                slack_webhook_url |-> url, req |-> req,
                changed_files |-> <<>>, results |-> <<>>,
                high_severity_results |-> <<>>, comments |-> <<>>,
                slack_calls |-> <<>>, slack_posts |-> <<>>, logged |-> <<>>,
                status |-> 0]

NextWebhook ==
    \/ WhReceive
    \/ WhFetchFails
    \/ WhFetch
    \/ WhAnalyze
    \/ Step(1)
    \/ WhCollect
    \/ WhAnalysisRaises
    \/ WhComment
    \/ WhSlack
    \/ WhLog

SpecWebhook == InitWebhook /\ [][NextWebhook]_vars

----------------------------------------------------------------------------
(* Claims *)

\* the flags of a direct compute_severity call, as the decision table states them
HasKey(d, k) == k \in DOMAIN d
CallStaticFlag == Len(call.static_findings) > 0
CallProbBelow ==
    HasKey(call.ml_result, "probability")
        /\ call.ml_result.probability < call.ml_threshold
CallProbReached ==
    HasKey(call.ml_result, "probability")
        /\ call.ml_result.probability >= call.ml_threshold
CallLabelIs(l) == HasKey(call.ml_result, "label") /\ call.ml_result.label = l
CallMlFlag == CallProbReached \/ CallLabelIs("vulnerable")

\* C1: whenever the findings are non-empty and the ml-flag is raised
\* (probability >= ml_threshold or label = "vulnerable"), compute_severity
\* returns exactly HIGH, whichever rule group produced the findings.
C1_HighWhenBothFlags ==
    (call.done /\ CallStaticFlag /\ CallMlFlag) => ret = "HIGH"

\* C2: whenever the findings are empty, probability < ml_threshold and the
\* label is "safe", compute_severity returns exactly SAFE.
C2_SafeWhenNoFlag ==
    (call.done /\ ~CallStaticFlag /\ CallProbBelow /\ CallLabelIs("safe"))
        => ret = "SAFE"

\* C3: compute_severity returns exactly MEDIUM when exactly one flag is raised:
\* findings non-empty with probability < ml_threshold and label "safe", or
\* findings empty with probability >= ml_threshold.
C3_MediumWhenOneFlag ==
    (call.done /\ (\/ CallStaticFlag /\ CallProbBelow /\ CallLabelIs("safe")
                   \/ ~CallStaticFlag /\ CallProbReached))
        => ret = "MEDIUM"

C3_Witness ==
    /\ call.done
    /\ CallStaticFlag /\ CallProbBelow /\ CallLabelIs("safe")
    /\ ret = "MEDIUM"

\* the rule groups in their declaration order
RuleGroups ==
    << [name |-> "SQL_INJECTION", patterns |-> SQL_INJECTION_PATTERNS],
       [name |-> "HARDCODED_CREDENTIAL", patterns |-> HARDCODED_CREDENTIAL_PATTERNS],
       [name |-> "UNSAFE_EVAL", patterns |-> UNSAFE_EVAL_PATTERNS] >>
GroupIndex(rule) == CHOOSE g \in 1..Len(RuleGroups) : RuleGroups[g].name = rule

\* the (group, line, pattern) triples of the input's lines that match
MatchesOf(src) ==
    {m \in (1..Len(RuleGroups)) \X (1..Len(src)) \X (1..2) :
        Search(RuleGroups[m[1]].patterns[m[3]], src[m[2]])}

\* the findings of ret that report triple m
Reports(m) ==
    {k \in 1..Len(ret) :
        /\ ret[k].rule = RuleGroups[m[1]].name
        /\ ret[k].line = m[2]
        /\ ret[k].pattern = RuleGroups[m[1]].patterns[m[3]].pattern}

\* C7: analyze_code_static returns exactly one finding per matching (line,
\* pattern) pair, each with the line's 1-based index, ordered by rule group
\* (SQL_INJECTION, HARDCODED_CREDENTIAL, UNSAFE_EVAL) and, within a group, by
\* ascending line number; an empty input yields no finding.
C7_OneFindingPerMatchInOrder ==
    call.done =>
        /\ Len(ret) = Cardinality(MatchesOf(call.src))
        /\ \A m \in MatchesOf(call.src) : Cardinality(Reports(m)) = 1
        /\ \A k \in 1..Len(ret) : \A l \in (k + 1)..Len(ret) :
              \/ GroupIndex(ret[k].rule) < GroupIndex(ret[l].rule)
              \/ /\ ret[k].rule = ret[l].rule
                 /\ ret[k].line <= ret[l].line
        /\ (call.code = <<>> => ret = <<>>)

\* a 5-line input whose only match is a credential pattern on line 3
C7_Witness ==
    /\ call.done
    /\ Len(call.src) = 5
    /\ MatchesOf(call.src) = {<<2, 3, 1>>}
    /\ Len(ret) = 1
    /\ ret[1].rule = "HARDCODED_CREDENTIAL"
    /\ ret[1].line = 3

\* the threads whose call has returned / is an analyze_file call that returned
Returned == {t \in Threads : th[t].pc = "done"}
Analyzed == {t \in Returned : th[t].op = "analyze_file"}

\* C4: over every interleaving of concurrent first calls the artifact is
\* loaded at most once, every caller that load_model has returned to holds
\* that one loaded instance, and _MODEL never changes once set.
C4_LoadedOnceAndShared ==
    /\ [](/\ loads <= 1
          /\ \A t \in Threads : th[t].pc \in {"score", "done"} =>
                /\ loads = 1
                /\ th[t].model = _MODEL
                /\ th[t].model.id = 1)
    /\ [][_MODEL # None => _MODEL' = _MODEL]_vars

C4_Witness ==
    /\ Returned = Threads
    /\ loads = 1
    /\ \A t \in Threads : th[t].model = _MODEL /\ _MODEL # None

\* C5: when load_model finds the artifact missing or unreadable, analyze_file
\* ends with that very error at its caller and never returns a result: no
\* severity and no ml_result, though the static scan has run.
C5_LoadFailurePropagates ==
    /\ [](\A t \in Threads : th[t].op = "analyze_file" =>
            /\ th[t].raised # NoError =>
                  /\ th[t].pc = "raised"
                  /\ th[t].exc = th[t].raised
                  /\ th[t].severity = "None"
                  /\ th[t].ml_result = NoMl
            /\ th[t].pc = "done" =>
                  /\ th[t].raised = NoError
                  /\ th[t].ml_result # NoMl)
    /\ [][\A t \in Threads :
            /\ (th[t].pc = "exists" /\ ~path_exists(artifact) /\ th'[t] # th[t])
                  => th'[t].raised = FileNotFoundError
            /\ (th[t].pc = "load" /\ ~joblib_loadable(artifact) /\ th'[t] # th[t])
                  => th'[t].raised = UnpicklingError
            /\ th[t].pc = "raised" => th'[t] = th[t]]_vars

C5_Witness ==
    \E t \in Threads :
        /\ th[t].op = "analyze_file"
        /\ th[t].pc = "raised"
        /\ th[t].exc = FileNotFoundError
        /\ th[t].static_findings # <<>>

\* C6: predict_vulnerability returns label "vulnerable" if and only if the
\* returned probability is >= the given threshold, and "safe" otherwise.
C6_LabelFromThreshold ==
    \A t \in Returned :
        /\ th[t].ml_result.label \in {"vulnerable", "safe"}
        /\ th[t].ml_result.label = "vulnerable"
              <=> th[t].ml_result.probability >= th[t].threshold

\* a probability that the default threshold would label vulnerable
C6_Witness ==
    \E t \in Returned :
        /\ th[t].op = "predict_vulnerability"
        /\ th[t].threshold > threshold_default
        /\ th[t].ml_result.probability >= threshold_default
        /\ th[t].ml_result.label = "safe"

\* C9: two analyze_file calls with identical (file_path, code) return
\* identical results, and no step taken while the classifier is loaded
\* changes the loaded model.
C9_SameInputSameResult ==
    /\ [](\A t \in Analyzed : \A u \in Analyzed :
            (th[t].file_path = th[u].file_path /\ th[t].code = th[u].code)
                => Result(th[t]) = Result(th[u]))
    /\ [][_MODEL # None => (_MODEL' = _MODEL /\ loads' = loads)]_vars

\* two calls on the same vulnerable file; the artifact on disk has been
\* retrained to another classifier than the loaded one
C9_Witness ==
    /\ Analyzed = Threads
    /\ \A t \in Threads : th[t].code = VulnCode
    /\ artifact # Dumped(_MODEL)
    /\ \A t \in Threads : Result(th[t]) = Result(th[1])

\* C10: in every result analyze_file returns, the label is "vulnerable" if and
\* only if the probability is >= 0.5, so the two disjuncts of the ml-flag
\* agree and the severity is a function of (findings non-empty,
\* probability >= 0.5) alone.
C10_FlagDisjunctsAgree ==
    \A t \in Analyzed :
        /\ th[t].ml_result.label = "vulnerable"
              <=> th[t].ml_result.probability >= 50
        /\ th[t].ml_result.probability >= ml_threshold_default
              <=> Get(th[t].ml_result, "label", "None") = "vulnerable"
        /\ \A u \in Analyzed :
              (/\ (th[t].static_findings # <<>>) = (th[u].static_findings # <<>>)
               /\ (th[t].ml_result.probability >= 50)
                     = (th[u].ml_result.probability >= 50))
                  => th[t].severity = th[u].severity

\* a result whose probability is exactly 0.5
C10_Witness ==
    \E t \in Analyzed :
        /\ th[t].ml_result.probability = 50
        /\ th[t].ml_result.label = "vulnerable"
        /\ th[t].static_findings # <<>>

\* in a direct compute_severity call the two disjuncts can disagree
DirectCallDisjunctsDisagree ==
    /\ call.done
    /\ HasKey(call.ml_result, "probability")
    /\ HasKey(call.ml_result, "label")
    /\ CallProbReached # CallLabelIs("vulnerable")

\* the results of the request that the decision table makes HIGH: static
\* findings present and the ml-flag raised
HighResults ==
    SelectSeq(wh.results,
        LAMBDA r : /\ r.static_findings # <<>>
                   /\ \/ r.ml_result.probability >= ml_threshold_default
                      \/ r.ml_result.label = "vulnerable")

\* C8: once github_webhook has analysed the changed files and passed its
\* notification step, send_slack_notification has been called with exactly the
\* HIGH results when there is one, and has not been called when there is none.
C8_SlackOnHigh ==
    (wh.pc = "log" \/ (wh.pc = "responded" /\ wh.logged # <<>>)) =>
        wh.slack_calls = IF HighResults # <<>> THEN <<HighResults>> ELSE <<>>

\* the positions inside load_model's with block
InLock == {"check", "exists", "load", "release"}

\* C11: a load_model call that fails leaves _MODEL unset and _MODEL_LOCK free,
\* so the lock is only ever held by a thread that can take its next step; and
\* every call that finds _MODEL unset attempts the load anew: it raises
\* FileNotFoundError while the artifact is absent, and loads and caches the
\* model once the artifact is present.
C11_FailedLoadLeavesRetryPossible ==
    /\ [](/\ \A t \in Threads :
                /\ th[t].pc \in {"exists", "load"} => _MODEL = None
                /\ _MODEL_LOCK = t => (th[t].pc \in InLock /\ ENABLED Step(t))
          /\ (\E t \in Threads : th[t].pc = "raised") =>
                (\A u \in Threads : th[u].pc = "acquire" =>
                    \E v \in Threads : ENABLED Step(v)))
    /\ [][\A t \in Threads : th'[t] # th[t] =>
            /\ th'[t].pc = "raised" =>
                  /\ _MODEL' = None
                  /\ _MODEL_LOCK' = 0
                  /\ loads' = loads
            /\ (th[t].pc = "check" /\ _MODEL = None) => th'[t].pc = "exists"
            /\ (th[t].pc = "exists" /\ ~path_exists(artifact)) =>
                  /\ th'[t].pc = "raised"
                  /\ th'[t].exc = FileNotFoundError
            /\ (th[t].pc = "load" /\ joblib_loadable(artifact)) =>
                  /\ _MODEL' = joblib_load(artifact, loads + 1)
                  /\ _MODEL' # None
                  /\ loads' = loads + 1]_vars

\* one call has failed on the missing artifact; a later one, made after the
\* artifact was written, has loaded it and returned
C11_Witness ==
    \E t \in Threads : \E u \in Threads :
        /\ th[t].pc = "raised"
        /\ th[t].exc = FileNotFoundError
        /\ th[u].pc = "done"
        /\ th[u].model = _MODEL
        /\ _MODEL # None
        /\ loads = 1
        /\ _MODEL_LOCK = 0

\* every call has failed on the artifact still being absent
C11_AllFailWhileAbsent ==
    /\ \A t \in Threads : th[t].pc = "raised" /\ th[t].exc = FileNotFoundError
    /\ _MODEL = None
    /\ _MODEL_LOCK = 0

====
